---- MODULE Spec2Model ----
(***************************************************************************)
(* State-machine model of v11.py: the poll loop (lines 138-182), the       *)
(* signal engine get_signal (lines 75-117), the notifier send_telegram_msg *)
(* (lines 31-45) and the per-symbol cooldown map                           *)
(* st.session_state.last_alert_time (lines 26-28).                         *)
(*                                                                         *)
(* Numbers.  Prices, EMAs, volumes and times are integers.  The two user   *)
(* thresholds are kept exact as scaled integers: v_limit is counted in     *)
(* halves (number_input step 0.5) and p_limit in tenths (step 0.1).        *)
(* Ratios are never divided out: v_ratio is a pair <<num, den>> and every  *)
(* comparison is cross-multiplied.                                         *)
(***************************************************************************)
EXTENDS Integers, Sequences, FiniteSets, TLC

VARIABLES
    last_alert_time,  \* st.session_state.last_alert_time: dict symbol -> time
    now,              \* the wall clock read by time.time()
    pc,               \* "loop" while the script runs, "crashed" after an uncaught exception
    i,                \* position of the for loop of line 144 in symbols (1-based)
    symbols,          \* sidebar: the ticker list
    p_limit,          \* sidebar: price_threshold, in tenths of a percent
    v_limit,          \* sidebar: vol_threshold, in halves
    df,               \* the frame fetch_data returned for the symbol evaluated last
    result,           \* what get_signal returned for it
    ev,               \* trace of the last loop body: what it did and the map before it
    sent,             \* history: per symbol, the calls of send_telegram_msg in order
    trig              \* history: per symbol, the time of the last evaluation with
                      \* trigger_alert (0: none yet)

vars == <<last_alert_time, now, pc, i, symbols, p_limit, v_limit, df, result, ev, sent, trig>>

----------------------------------------------------------------------------
(* Program constants and bounds *)

\* the cooldown of line 106, in seconds
Cooldown == 900

\* get_signal needs at least this many bars (line 76)
MinBars == 21

\* a missing value of a rolling column (pandas NaN); every real value is >= 0
NaN == -1

\* clock value when the session starts (an epoch time, far above the cooldown)
StartTime == 1000

\* the session is followed for this many seconds
Horizon == 902

\* the same for the exhaustive enumeration of frames
SignalHorizon == 902

Symbols == {"NVDA", "TSLA"}

\* seconds slept between two cycles: values of the slider of line 129
RefreshRates == {450, 451}

\* v_limit in halves: 1.0 and 2.0 (the default)
VLimits == {2, 4}

\* p_limit in tenths: 1.0 (the default) and 15.0
PLimits == {10, 150}

\* what the environment does to one call of send_telegram_msg
SendOutcomes == {"ok", "no_secrets", "http_error"}

----------------------------------------------------------------------------
(* Comparisons of pandas/numpy floats: any comparison with NaN is False *)

Gt(a, b) == a # NaN /\ b # NaN /\ a > b

Lt(a, b) == a # NaN /\ b # NaN /\ a < b

Abs(x) == IF x < 0 THEN -x ELSE x

\* dict.get(key, default)
Get(d, k, default) == IF k \in DOMAIN d THEN d[k] ELSE default

\* d[k] = v on a dict
Put(d, k, v) == [x \in (DOMAIN d) \cup {k} |-> IF x = k THEN v ELSE d[x]]

----------------------------------------------------------------------------
(* fetch_data: the columns of the last two rows that get_signal reads.     *)
(* A frame is what fetch_data can return: rolling(20) leaves Vol_Avg       *)
(* undefined below 20 rows, rolling(20).shift(1) leaves Resist and Support *)
(* undefined below 21 rows, a mean of non-negative volumes is 0 only when  *)
(* every volume of the window is 0, and the last volume is at most 20      *)
(* times the mean of the window it belongs to.                             *)

Frame(n, c, p, e, lv, vol) ==
    [len |-> n, Close |-> c, PrevClose |-> p, EMA20 |-> e, EMA60 |-> 10,
     EMA200 |-> 10, Resist |-> lv[1], Support |-> lv[2],
     Volume |-> vol[1], Vol_Avg |-> vol[2]]

fetch_data_ok(d) ==
    /\ (d.len < 20 => d.Vol_Avg = NaN)
    /\ (d.len < MinBars => d.Resist = NaN /\ d.Support = NaN)
    /\ (d.Resist = NaN <=> d.Support = NaN)
    /\ (d.Resist # NaN => d.Resist >= d.Support)
    /\ (d.Vol_Avg = 0 => d.Volume = 0)
    /\ (d.Vol_Avg > 0 => d.Volume <= 20 * d.Vol_Avg)

\* <<Resist, Support>> of the last row
Levels == {<<10, 10>>, <<12, 8>>, <<NaN, NaN>>}

\* <<Volume, Vol_Avg>> of the last row
Volumes == {<<0, 0>>, <<10, 10>>, <<30, 10>>, <<10, NaN>>}

\* every frame of the enumeration
Frames ==
    {d \in {Frame(n, c, p, e, lv, vol) :
                n \in {5, 20, 21}, c \in {9, 10, 11}, p \in {0, 10},
                e \in {9, 10, 11}, lv \in Levels, vol \in Volumes} :
        fetch_data_ok(d)}

\* the frames of the long session, one per path through get_signal: a
\* breakout, a breakdown, a quiet bar, a breakout bar on an undefined volume
\* baseline, a short history, a previous close of 0
SessionFrames ==
    {Frame(21, 11, 10, 11, <<10, 10>>, <<30, 10>>),
     Frame(21, 9, 10, 9, <<10, 10>>, <<30, 10>>),
     Frame(21, 10, 10, 10, <<10, 10>>, <<10, 10>>),
     Frame(21, 11, 10, 11, <<10, 10>>, <<10, NaN>>),
     Frame(5, 11, 0, 11, <<NaN, NaN>>, <<10, NaN>>),
     Frame(21, 11, 0, 11, <<10, 10>>, <<30, 10>>)}

\* no frame: fetch_data returned None, or nothing was fetched yet
NoFrame ==
    [len |-> 0, Close |-> NaN, PrevClose |-> NaN, EMA20 |-> NaN, EMA60 |-> NaN,
     EMA200 |-> NaN, Resist |-> NaN, Support |-> NaN, Volume |-> NaN, Vol_Avg |-> NaN]

\* nothing returned: get_signal was not called, or an exception left it
NoResult == [status |-> "none", color |-> "none", alert |-> <<>>, card_style |-> "none"]

----------------------------------------------------------------------------
(* send_telegram_msg: the try block reads the two secrets and calls        *)
(* requests.get; any Exception is caught and shown with st.error.          *)
(* delivered: the request was made; reported: st.error was called;         *)
(* raised: an exception left the function.                                  *)

send_telegram_msg_nocatch(outcome) ==
    [delivered |-> outcome = "ok", reported |-> FALSE, raised |-> outcome # "ok"]

send_telegram_msg(outcome) ==
    [delivered |-> outcome = "ok", reported |-> outcome # "ok", raised |-> FALSE]

----------------------------------------------------------------------------
(* get_signal, line by line *)

Insufficient_spec(d) == d.len < 2

\* line 76: if len(df) < 21: return ...
Insufficient(d) == d.len < MinBars

\* the value returned at line 76
NotEnoughData ==
    [status |-> "Loading", color |-> "#aaa", alert |-> <<"NotEnoughData">>, card_style |-> ""]

\* line 83: (price - prev) / prev on Python floats raises ZeroDivisionError
p_change_raises(d) == d.PrevClose = 0

\* line 114: abs(p_change) >= p_limit, with p_change = (price - prev) / prev * 100
\* and p_limit in tenths
price_shock(d, pl) == Abs(d.Close - d.PrevClose) * 1000 >= pl * Abs(d.PrevClose)

v_ratio_raw(d) == IF Gt(d.Vol_Avg, 0) THEN <<d.Volume, d.Vol_Avg>> ELSE <<d.Volume, 1>>

\* line 84: Volume / Vol_Avg if Vol_Avg > 0 else 1, as <<numerator, denominator>>
v_ratio(d) == IF Gt(d.Vol_Avg, 0) THEN <<d.Volume, d.Vol_Avg>> ELSE <<1, 1>>

volume_spike_gt(d, vl) == 2 * v_ratio(d)[1] > vl * v_ratio(d)[2]

\* lines 94, 99, 115: v_ratio >= v_limit, with v_limit in halves
volume_spike(d, vl) == 2 * v_ratio(d)[1] >= vl * v_ratio(d)[2]

\* line 87
is_bullish(d) == Gt(d.Close, d.EMA200) /\ Gt(d.EMA20, d.EMA60)

\* line 88
is_bearish(d) == Lt(d.Close, d.EMA200) /\ Lt(d.EMA20, d.EMA60)

long_cond_notrend(d, vl) == Gt(d.Close, d.Resist) /\ volume_spike(d, vl)

\* line 94
long_cond(d, vl) == is_bullish(d) /\ Gt(d.Close, d.Resist) /\ volume_spike(d, vl)

\* line 99: the elif branch
short_cond(d, vl) ==
    ~long_cond(d, vl) /\ is_bearish(d) /\ Lt(d.Close, d.Support) /\ volume_spike(d, vl)

\* lines 90, 95, 100
trigger_alert(d, vl) == long_cond(d, vl) \/ short_cond(d, vl)

\* lines 90, 95, 100: "" when neither branch is taken
action_type(d, vl) ==
    IF long_cond(d, vl) THEN "BreakoutLong"
    ELSE IF short_cond(d, vl) THEN "BreakdownShort" ELSE ""

\* lines 90, 95, 100
card_style(d, vl) ==
    IF long_cond(d, vl) THEN "blink-bull"
    ELSE IF short_cond(d, vl) THEN "blink-bear" ELSE ""

CooldownElapsed_ge(t, last) == t - last >= Cooldown

\* line 106: (now - last_alert_time.get(sym, 0)) > 900
CooldownElapsed(t, last) == t - last > Cooldown

should_send_shock(d, pl, vl, last, t) ==
    trigger_alert(d, vl) /\ CooldownElapsed(t, last) /\ price_shock(d, pl)

\* lines 104-106: the two nested ifs around the call of send_telegram_msg
should_send(d, pl, vl, last, t) == trigger_alert(d, vl) /\ CooldownElapsed(t, last)

new_alert_time_never(lat, sym, t, trg, fire) == lat

new_alert_time_on_trigger(lat, sym, t, trg, fire) == IF trg THEN Put(lat, sym, t) ELSE lat

\* line 108: the assignment, inside both ifs
new_alert_time(lat, sym, t, trg, fire) == IF fire THEN Put(lat, sym, t) ELSE lat

\* line 110: the trend shown, from price against EMA200 alone
trend_status(d) ==
    IF Gt(d.Close, d.EMA200) THEN <<"LongTrend", "#00ff00">>
    ELSE IF Lt(d.Close, d.EMA200) THEN <<"ShortTrend", "#ff4b4b">>
    ELSE <<"Watch", "#aaa">>

\* lines 110-111
status(d, vl) == IF action_type(d, vl) # "" THEN action_type(d, vl) ELSE trend_status(d)[1]

\* lines 113-117: the flags shown, or "stable" when there is none
alert_summary(d, pl, vl) ==
    LET flags == (IF price_shock(d, pl) THEN <<"PriceShock">> ELSE <<>>)
                 \o (IF volume_spike(d, vl) THEN <<"VolumeSpike">> ELSE <<>>)
    IN  IF flags # <<>> THEN flags ELSE <<"Stable">>

\* One call get_signal(df, p_limit, v_limit, sym) at clock t, on the map lat,
\* with the environment answering a send with outcome out.
\*   raised: an exception left get_signal;  ret: the value returned;
\*   lat: the map after the call;  calls: the calls of send_telegram_msg made;
\*   reported: st.error was called;  triggered: trigger_alert.
get_signal(d, pl, vl, sym, lat, t, out) ==
    IF Insufficient(d) THEN
        [raised |-> FALSE, ret |-> NotEnoughData, lat |-> lat, calls |-> <<>>,
         reported |-> FALSE, triggered |-> FALSE]
    ELSE IF p_change_raises(d) THEN
        [raised |-> TRUE, ret |-> NoResult, lat |-> lat, calls |-> <<>>,
         reported |-> FALSE, triggered |-> FALSE]
    ELSE
        LET trg  == trigger_alert(d, vl)
            fire == should_send(d, pl, vl, Get(lat, sym, 0), t)
            snd  == send_telegram_msg(out)
            call == [t |-> t, action |-> action_type(d, vl), outcome |-> out]
        IN  IF fire /\ snd.raised THEN
                [raised |-> TRUE, ret |-> NoResult, lat |-> lat, calls |-> <<call>>,
                 reported |-> FALSE, triggered |-> trg]
            ELSE
                [raised |-> FALSE,
                 ret |-> [status |-> status(d, vl), color |-> trend_status(d)[2],
                          alert |-> alert_summary(d, pl, vl),
                          card_style |-> card_style(d, vl)],
                 lat |-> new_alert_time(lat, sym, t, trg, fire),
                 calls |-> IF fire THEN <<call>> ELSE <<>>,
                 reported |-> fire /\ snd.reported,
                 triggered |-> trg]

----------------------------------------------------------------------------
(* The script: session state, sidebar, poll loop *)

\* line 28: the empty dict
EmptyDict == [x \in {} |-> 0]

\* no loop body has run yet
NoEv ==
    [sym |-> "none", fetched |-> FALSE, t |-> 0, triggered |-> FALSE, calls |-> <<>>,
     reported |-> FALSE, raised |-> FALSE, before |-> EmptyDict, prev_trig |-> 0]

\* what the history keeps of the calls made by one evaluation
Logged(calls) == [k \in DOMAIN calls |-> [t |-> calls[k].t, delivered |-> calls[k].outcome = "ok"]]

\* First run of the script in a session: lines 26-28 create the map, the
\* sidebar (lines 120-132) gives the symbols and the two thresholds.
InitWith(syms, PL, VL) ==
    /\ last_alert_time = EmptyDict
    /\ now = StartTime
    /\ pc = "loop"
    /\ i = 1
    /\ symbols = syms
    /\ p_limit \in PL
    /\ v_limit \in VL
    /\ df = NoFrame
    /\ result = NoResult
    /\ ev = NoEv
    /\ sent = [s \in Symbols |-> <<>>]
    /\ trig = [s \in Symbols |-> 0]

\* Lines 144-148 with fetch_data returning a frame: one body of the for loop.
\* The frame is any frame of F; the clock is read at line 105 (fetching and
\* evaluating take no time here, the clock moves in Sleep).  An exception
\* leaving get_signal is caught nowhere: it ends the script run.
Evaluate(F) ==
    /\ pc = "loop"
    /\ i <= Len(symbols)
    /\ \E d \in F :
         LET sym  == symbols[i]
             outs == IF get_signal(d, p_limit, v_limit, sym, last_alert_time, now, "ok").calls = <<>>
                     THEN {"ok"} ELSE SendOutcomes
         IN  \E out \in outs :
               LET r == get_signal(d, p_limit, v_limit, sym, last_alert_time, now, out)
               IN  /\ df' = d
                   /\ result' = r.ret
                   /\ last_alert_time' = r.lat
                   /\ sent' = [sent EXCEPT ![sym] = @ \o Logged(r.calls)]
                   /\ trig' = [trig EXCEPT ![sym] = IF r.triggered THEN now ELSE @]
                   /\ ev' = [sym |-> sym, fetched |-> TRUE, t |-> now,
                             triggered |-> r.triggered, calls |-> r.calls,
                             reported |-> r.reported, raised |-> r.raised,
                             before |-> last_alert_time, prev_trig |-> trig[sym]]
                   /\ pc' = IF r.raised THEN "crashed" ELSE "loop"
                   /\ i' = IF r.raised THEN i ELSE i + 1
    /\ UNCHANGED <<now, symbols, p_limit, v_limit>>

\* Lines 145-146 with fetch_data returning None (empty download, or any
\* exception inside fetch_data, line 72): the symbol is skipped.
FetchFail ==
    /\ pc = "loop"
    /\ i <= Len(symbols)
    /\ df' = NoFrame
    /\ result' = NoResult
    /\ ev' = [NoEv EXCEPT !.sym = symbols[i], !.t = now, !.before = last_alert_time,
                           !.prev_trig = trig[symbols[i]]]
    /\ i' = i + 1
    /\ UNCHANGED <<last_alert_time, now, pc, symbols, p_limit, v_limit, sent, trig>>

\* Lines 159-182 and 138-139: the cycle ends, time.sleep(refresh_rate), and
\* the next cycle starts at the first symbol with all_data empty.
Sleep(maxT) ==
    /\ pc = "loop"
    /\ i > Len(symbols)
    /\ \E r \in RefreshRates :
         /\ now + r <= StartTime + maxT
         /\ now' = now + r
    /\ i' = 1
    /\ df' = NoFrame
    /\ result' = NoResult
    /\ ev' = NoEv
    /\ UNCHANGED <<last_alert_time, pc, symbols, p_limit, v_limit, sent, trig>>

\* The script is run again from line 1 in the same session (a widget was
\* changed, or the page was reloaded after a crash): line 27 keeps the map,
\* the thresholds are read again, the loop starts over.
Rerun(PL, VL) ==
    /\ pc \in {"loop", "crashed"}
    /\ p_limit' \in PL
    /\ v_limit' \in VL
    /\ pc' = "loop"
    /\ i' = 1
    /\ df' = NoFrame
    /\ result' = NoResult
    /\ ev' = NoEv
    /\ UNCHANGED <<last_alert_time, now, symbols, sent, trig>>

Init == InitWith(<<"NVDA", "TSLA">>, {10}, {4})

Next ==
    \/ Evaluate(SessionFrames)
    \/ FetchFail
    \/ Sleep(Horizon)
    \/ Rerun({10}, {4})

\* the session: two symbols, the default thresholds, three cycles
Spec == Init /\ [][Next]_vars

InitSignal == InitWith(<<"NVDA">>, PLimits, VLimits)

NextSignal ==
    \/ Evaluate(Frames)
    \/ FetchFail
    \/ Sleep(SignalHorizon)
    \/ Rerun(PLimits, VLimits)

\* one symbol, every threshold, every frame of the enumeration
SpecSignal == InitSignal /\ [][NextSignal]_vars

----------------------------------------------------------------------------
(* Properties *)

\* the calls of send_telegram_msg made by the evaluation ev describes
Attempts == Len(ev.calls)

\* the dispatches for ev.sym made before the evaluation ev describes
PriorSent == SubSeq(sent[ev.sym], 1, Len(sent[ev.sym]) - Attempts)

Breakouts == {"BreakoutLong", "BreakdownShort"}

Flags == {result.alert[k] : k \in DOMAIN result.alert}

\* the 20-bar volume baseline of the last bar is defined and positive
BaselineOK == df.Vol_Avg # NaN /\ df.Vol_Avg > 0

\* volume_ratio >= threshold, with volume_ratio = 1 without a baseline
VolumeOK ==
    IF BaselineOK THEN 2 * df.Volume >= v_limit * df.Vol_Avg ELSE 2 >= v_limit

Bullish == df.Close > df.EMA200 /\ df.EMA20 > df.EMA60

Bearish == df.Close < df.EMA200 /\ df.EMA20 < df.EMA60

AboveResistance == df.Resist # NaN /\ df.Close > df.Resist

BelowSupport == df.Support # NaN /\ df.Close < df.Support

\* C1: any two notifications dispatched through send_telegram_msg for the
\* same symbol are dispatched at times more than 900 seconds apart.
C1_OnePerWindow ==
    \A s \in Symbols : \A j, k \in DOMAIN sent[s] :
        j < k => sent[s][k].t - sent[s][j].t > Cooldown

\* C1 witness: a symbol has been notified twice in the session.
C1_TwoDispatches == \E s \in Symbols : Len(sent[s]) >= 2

\* C2 as claimed: of two evaluations of one symbol with trigger_alert at
\* t1 < t2, the second dispatches only if t2 - t1 > 900 (t1 is the latest
\* such evaluation before this one, the pair with the smallest distance).
C2_BetweenEligibleEvents ==
    (/\ ev.fetched /\ ev.triggered
     /\ ev.prev_trig > 0 /\ ev.prev_trig < ev.t
     /\ ev.t - ev.prev_trig <= Cooldown)
    => Attempts = 0

\* C2 as amended: when an evaluation with trigger_alert at t2 follows an
\* evaluation of the same symbol that dispatched a notification at t1 < t2,
\* it dispatches only if t2 - t1 > 900, and dispatches nothing when
\* t2 - t1 <= 900.
C2_SinceLastDispatch ==
    (ev.fetched /\ ev.triggered)
    => \A k \in DOMAIN PriorSent :
          (PriorSent[k].t < ev.t /\ ev.t - PriorSent[k].t <= Cooldown) => Attempts = 0

\* C2 witness: a triggering evaluation exactly 900 seconds after a dispatch,
\* which sends nothing.
C2_SuppressedAtBoundary ==
    /\ ev.fetched /\ ev.triggered /\ Attempts = 0
    /\ \E k \in DOMAIN PriorSent : ev.t - PriorSent[k].t = Cooldown

\* C3: an evaluation on at least 21 bars makes exactly one call of
\* send_telegram_msg when its classification is a breakout or a breakdown
\* and now - last_alert_time.get(sym, 0) > 900, and none otherwise; the
\* price-shock and volume-spike flags decide nothing.
C3_ExactFiring ==
    (ev.fetched /\ df.len >= MinBars)
    => /\ Attempts <= 1
       /\ Attempts = 1 <=>
            (/\ result.status \in Breakouts
             /\ ev.t - (IF ev.sym \in DOMAIN ev.before THEN ev.before[ev.sym] ELSE 0) > Cooldown)

\* C3 witness: a notification dispatched by an evaluation that shows no
\* price-shock flag.
C3_FiredWithoutShock ==
    /\ ev.fetched /\ df.len >= MinBars /\ Attempts = 1
    /\ "PriceShock" \notin Flags

\* C4: last_alert_time changes only in an evaluation that dispatches; that
\* evaluation sets the entry of its symbol to the current time and leaves
\* every other entry as it was; every dispatch sets the entry.
C4_AlertStateFrame ==
    [][ /\ (last_alert_time' # last_alert_time) =>
             /\ ev'.fetched
             /\ Len(ev'.calls) = 1
             /\ sent'[ev'.sym] # sent[ev'.sym]
             /\ DOMAIN last_alert_time' = DOMAIN last_alert_time \cup {ev'.sym}
             /\ last_alert_time'[ev'.sym] = now'
             /\ \A s \in DOMAIN last_alert_time :
                    s # ev'.sym => last_alert_time'[s] = last_alert_time[s]
        /\ (sent' # sent) =>
             /\ ev'.sym \in DOMAIN last_alert_time'
             /\ last_alert_time'[ev'.sym] = now' ]_vars

\* C4 witness: an evaluation has just dispatched for one symbol while the
\* other symbol keeps the earlier time of its own alert.
C4_FiredBesideOther ==
    /\ ev.fetched /\ Attempts = 1
    /\ DOMAIN last_alert_time = Symbols
    /\ \E s \in Symbols : s # ev.sym /\ last_alert_time[s] < last_alert_time[ev.sym]

C6_TrendClassification ==
    (ev.fetched /\ df.len >= MinBars /\ ~ev.raised /\ result.status \notin Breakouts)
    => result.status = (IF Bullish THEN "LongTrend"
                        ELSE IF Bearish THEN "ShortTrend" ELSE "Watch")

\* C7: on fewer than 21 bars get_signal returns the not-enough-data value
\* (neutral colour, empty card style), raises nothing, sends nothing and
\* leaves last_alert_time as it was.
C7_InsufficientHistory ==
    (ev.fetched /\ df.len < MinBars)
    => /\ result.status = "Loading" /\ result.color = "#aaa"
       /\ result.alert = <<"NotEnoughData">> /\ result.card_style = ""
       /\ ~ev.raised /\ pc = "loop"
       /\ Attempts = 0
       /\ last_alert_time = ev.before

\* C7 witness: a 5-bar frame whose previous close is 0 has been evaluated.
C7_ShortFrameEvaluated == ev.fetched /\ df.len = 5 /\ df.PrevClose = 0

\* C8 as claimed: with a previous close of 0 the evaluation does not crash,
\* a Signal is returned and the loop goes on.
C8_ZeroPrevCloseGuarded ==
    (ev.fetched /\ df.len >= MinBars /\ df.PrevClose = 0)
    => (~ev.raised /\ pc = "loop" /\ result # NoResult)

\* C9 as claimed: without a positive volume baseline the evaluation shows no
\* volume-spike flag, classifies no breakout or breakdown and sends nothing,
\* whatever the volume threshold.
C9_NeverSpikes ==
    (ev.fetched /\ df.len >= MinBars /\ ~BaselineOK)
    => /\ "VolumeSpike" \notin Flags
       /\ result.status \notin Breakouts
       /\ Attempts = 0

\* C9 as amended: the same, for every volume threshold greater than 1.
C9_NeverSpikesAboveOne ==
    (ev.fetched /\ df.len >= MinBars /\ ~BaselineOK /\ v_limit > 2)
    => /\ "VolumeSpike" \notin Flags
       /\ result.status \notin Breakouts
       /\ Attempts = 0

\* C9 witness: a Bullish bar above its resistance, with no volume baseline
\* and a threshold of 2.0, returned as a plain trend.
C9_BreakoutShapeNoBaseline ==
    /\ ev.fetched /\ df.len >= MinBars /\ ~BaselineOK /\ v_limit > 2
    /\ Bullish /\ AboveResistance
    /\ result.status = "LongTrend"

\* C10: when send_telegram_msg fails, the failure is reported with st.error,
\* no exception leaves get_signal, a Signal is returned and the loop goes
\* on, the time of the attempt is recorded, and no further call is made for
\* that symbol until more than 900 seconds later.
C10_TransportFailure ==
    /\ (ev.fetched /\ \E k \in DOMAIN ev.calls : ev.calls[k].outcome # "ok")
       => /\ ev.reported /\ ~ev.raised
          /\ pc = "loop" /\ result # NoResult
          /\ Attempts = 1
          /\ ev.sym \in DOMAIN last_alert_time /\ last_alert_time[ev.sym] = ev.t
    /\ \A s \in Symbols : \A j, k \in DOMAIN sent[s] :
          (j < k /\ ~sent[s][j].delivered)
          => sent[s][k].t - sent[s][j].t > Cooldown

\* C10 witness: a failed send for a symbol, and a later cycle in which the
\* same symbol was evaluated and notified again.
C10_FailedThenLaterSent ==
    \E s \in Symbols : Len(sent[s]) = 2 /\ ~sent[s][1].delivered

====
